---- MODULE Spec2Model ----
(***************************************************************************)
(* 3DGS COLMAP -> Brush pipeline (src/3dgs-colmap-brush.py).               *)
(*                                                                         *)
(* The script is one sequential process.  Its state is its position in     *)
(* main(), the part of the filesystem it reads and writes, and the         *)
(* external commands it has started.  History variables (fs0, invoked,     *)
(* exited, not_found, produced, checked, looked_up) record what happened   *)
(* so that properties of whole runs can be stated over states.             *)
(***************************************************************************)
EXTENDS Integers, Sequences, FiniteSets, TLC

\* Largest ordinary exit code an external command returns (255 is always
\* included as well), largest signal number that kills one.
MaxExitCode == 1
MaxSignal == 1
\* Number of directory entries of masks_dir, of dense_masks_dir, and the
\* largest number of image files of images_dir.
MaxMasks == 1
MaxDenseMasks == 2
MaxImages == 2

\* The five external commands in the order main() issues them.
Order == <<"feature_extractor", "exhaustive_matcher", "mapper",
           "image_undistorter", "brush">>

\* Paths below project_dir the pipeline reads or writes.
ProjectDir == "project"
DbPath == "project/database.db"
SparseDir == "project/sparse"
DenseDir == "project/dense"
SparseModel == "project/sparse/0"
BrushDataPath == "project/dense/0"
BrushImagesPath == "project/dense/0/images"
BrushSparsePath == "project/dense/0/sparse"
BrushMasksPath == "project/dense/0/masks"
BrushExportDir == "project/brush_exports"

\* Path.parent, for the paths above.
Parent(p) ==
    CASE p = ProjectDir -> ProjectDir
      [] p \in {DbPath, SparseDir, DenseDir, BrushExportDir} -> ProjectDir
      [] p = SparseModel -> SparseDir
      [] p = BrushDataPath -> DenseDir
      [] OTHER -> BrushDataPath

\* A set of paths together with all their ancestors.
RECURSIVE WithParents(_)
WithParents(ps) ==
    LET more == ps \cup {Parent(p) : p \in ps}
    IN IF more = ps THEN ps ELSE WithParents(more)

\* Extensions of directory entries and str.lower() on them.
MaskExts == {"png", "PNG"}
Lower(e) == IF e = "PNG" THEN "png" ELSE e

\* Kinds of directory entry: ext is the suffix without its dot, and file
\* tells a regular file from a subdirectory.
Files == <<[ext |-> "png", file |-> TRUE], [ext |-> "PNG", file |-> TRUE],
           [ext |-> "jpg", file |-> TRUE]>>
FilesAndDirs == Files \o <<[ext |-> "png", file |-> FALSE]>>

\* The listings of a directory of at most n entries of the given kinds.  An
\* entry's name stands for its stem, so two entries never share a name;
\* names are interchangeable, so listings are taken up to renaming.
Listings(kinds, n) ==
    UNION {{{[name |-> i, ext |-> kinds[s[i]].ext, file |-> kinds[s[i]].file] :
                i \in 1..k} :
            s \in {t \in [1..k -> 1..Len(kinds)] :
                     \A i, j \in 1..k : i <= j => t[i] <= t[j]}} :
           k \in 0..n}

\* What a path given on the command line turns out to be when the script
\* looks at it: not given at all, missing, a regular file, or a directory
\* with the listing the script reads from it.  Unread is the value before
\* the script has looked.
Unread == [kind |-> "unread", entries |-> {}]
NotGiven == [kind |-> "none", entries |-> {}]
Missing == [kind |-> "missing", entries |-> {}]
RegularFile == [kind |-> "file", entries |-> {}]
Directory(l) == [kind |-> "dir", entries |-> l]

\* images_dir holds k image files, for any k up to MaxImages.
Images(k) == {[name |-> i, ext |-> "jpg", file |-> TRUE] : i \in 1..k}
ImagesDirStates ==
    {Missing, RegularFile} \cup {Directory(Images(k)) : k \in 0..MaxImages}
MasksDirStates ==
    {NotGiven, Missing, RegularFile}
        \cup {Directory(l) : l \in Listings(FilesAndDirs, MaxMasks)}
DenseMasksDirStates ==
    {NotGiven, Missing} \cup {Directory(l) : l \in Listings(Files, MaxDenseMasks)}

VARIABLES
    pc,              \* position in main(), "exited" once the process is gone
    args,            \* parsed command line: run_brush, mask_ext
    fs,              \* paths that exist at or below project_dir
    fs0,             \* fs when the run started
    images_dir,      \* what args.images_dir was found to be
    masks_dir,       \* what args.masks_dir was found to be
    dense_masks_dir, \* what args.dense_masks_dir was found to be
    colmap_mask_args,\* the list built by mask detection
    invoked,         \* argument lists handed to subprocess.run, in order
    running,         \* commands whose subprocess has not exited yet
    exited,          \* <<command, returncode>> of finished subprocesses
    not_found,       \* commands whose executable was not found
    produced,        \* <<command, path>>: paths created by a subprocess
    checked,         \* <<path, existed>>: results of the exists() checks
    copied,          \* entries copied into dense/0/masks
    looked_up,       \* whether shutil.which(brush_bin) was evaluated
    log,             \* messages written to the log, as tags
    exit_status      \* {} while running, {status} once exited

vars == <<pc, args, fs, fs0, images_dir, masks_dir, dense_masks_dir,
          colmap_mask_args, invoked, running, exited, not_found, produced,
          checked, copied, looked_up, log, exit_status>>

\* Return codes subprocess.run can report: ordinary exit codes, and -s
\* when signal s killed the command.
ReturnCodes == (0..MaxExitCode) \cup {255} \cup {0 - s : s \in 1..MaxSignal}

\* Project directories left behind by an earlier run.
Leftovers == {SparseModel, BrushImagesPath, BrushSparsePath}

Init ==
    /\ pc = "checks"
    /\ args \in [run_brush : {0, 1}, mask_ext : MaskExts]
    /\ fs \in {{}} \cup {WithParents(s \cup {ProjectDir}) : s \in SUBSET Leftovers}
    /\ fs0 = fs
    /\ images_dir = Unread
    /\ masks_dir = Unread
    /\ dense_masks_dir = Unread
    /\ colmap_mask_args = <<>>
    /\ invoked = <<>>
    /\ running = {}
    /\ exited = {}
    /\ not_found = {}
    /\ produced = {}
    /\ checked = {}
    /\ copied = {}
    /\ looked_up = FALSE
    /\ log = {}
    /\ exit_status = {}

\* sys.exit(code): the status the parent of the pipeline observes.
SysExit(code) == code % 256

\* The process ends with status SysExit(code); nothing runs afterwards.
Exit(code) ==
    /\ pc' = "exited"
    /\ exit_status' = {SysExit(code)}

\* An exception nothing catches: the interpreter prints the traceback and
\* ends with status 1.
Uncaught == Exit(1)

\* Path.exists() of a command-line path.
PathExists(d) == d.kind \in {"file", "dir"}

\* count_images: regular files with a common image extension.
ImageExtensions == {"jpg", "jpeg", "png", "tif", "tiff"}
count_images(d) ==
    Cardinality({e \in d.entries : Lower(e.ext) \in ImageExtensions /\ e.file})

\* The filter of the mask count: a regular file whose suffix, lower-cased,
\* is the lower-cased mask extension.
IsMaskNoFileTest(e, mask_ext) == Lower(e.ext) = Lower(mask_ext)
IsMask(e, mask_ext) == e.file /\ Lower(e.ext) = Lower(mask_ext)
mask_count(d, mask_ext) == Cardinality({e \in d.entries : IsMask(e, mask_ext)})

\* dense_masks_dir.glob("*.<mask_ext>"): the pattern is matched against the
\* name as written, or ignoring case where the platform's paths do.
DenseGlobNone(d, mask_ext, case_sensitive) == {}
DenseGlob(d, mask_ext, case_sensitive) ==
    {e \in d.entries : IF case_sensitive THEN e.ext = mask_ext
                                          ELSE Lower(e.ext) = Lower(mask_ext)}

\* The guard of the first check of main().
ImagesDirAlwaysThere(d) == TRUE
ImagesDirExists(d) == PathExists(d)

\* Lines 102-113: images_dir must exist; project_dir, sparse/ and dense/ are
\* created if they are not there yet.
CheckAndSetup ==
    /\ pc = "checks"
    /\ \E d \in ImagesDirStates :
        /\ images_dir' = d
        /\ IF ~ImagesDirExists(d)
           THEN /\ log' = log \cup {"images_dir_missing"}
                /\ Exit(1)
                /\ fs' = fs
           ELSE /\ fs' = fs \cup {ProjectDir, SparseDir, DenseDir}
                /\ pc' = "mask_detection"
                /\ UNCHANGED <<log, exit_status>>
    /\ UNCHANGED <<args, fs0, masks_dir, dense_masks_dir, colmap_mask_args,
                   invoked, running, exited, not_found, produced, checked,
                   copied, looked_up>>

\* Lines 123-139: auto mask detection for COLMAP.  iterdir() of something
\* that is no directory raises NotADirectoryError, which nothing catches.
MaskArgs == <<"--ImageReader.mask_path", "masks_dir">>
MaskDetection ==
    /\ pc = "mask_detection"
    /\ \E d \in MasksDirStates :
        /\ masks_dir' = d
        /\ IF d.kind # "none" /\ PathExists(d)
           THEN IF images_dir.kind # "dir" \/ d.kind # "dir"
                THEN /\ Uncaught
                     /\ UNCHANGED <<colmap_mask_args, log>>
                ELSE LET img_count == count_images(images_dir)
                         n == mask_count(d, args.mask_ext)
                     IN /\ colmap_mask_args' = IF n > 0 THEN MaskArgs ELSE <<>>
                        /\ log' = log \cup
                             (IF n > 0
                              THEN {"masks_detected"} \cup
                                   (IF img_count > 0 /\ n < img_count
                                    THEN {"fewer_masks_than_images"} ELSE {})
                              ELSE {"no_mask_files"})
                        /\ pc' = "feature_extractor"
                        /\ exit_status' = exit_status
           ELSE /\ colmap_mask_args' = <<>>
                /\ log' = log \cup {"no_masks_configured"}
                /\ pc' = "feature_extractor"
                /\ exit_status' = exit_status
    /\ UNCHANGED <<args, fs, fs0, images_dir, dense_masks_dir, invoked,
                   running, exited, not_found, produced, checked, copied,
                   looked_up>>

\* Paths a command may create while it runs.  What an external program
\* leaves behind is not under the script's control: any subset may appear,
\* whatever the return code.
Outputs(cmd) ==
    CASE cmd = "feature_extractor" -> {DbPath}
      [] cmd = "mapper" -> {SparseModel}
      [] cmd = "image_undistorter" -> {BrushImagesPath, BrushSparsePath}
      [] OTHER -> {}

\* subprocess.run(cmd, check=True) raises CalledProcessError exactly when
\* the return code is not 0.
NeverRaises(returncode) == FALSE
CalledProcessError(returncode) == returncode # 0

\* The status run_command ends the process with after CalledProcessError.
ExitAlwaysOne(returncode) == 1
FailureExitCode(returncode) == returncode

\* run_command, first half (lines 37-45): log the command and hand it to
\* subprocess.run.  A missing executable raises FileNotFoundError, which
\* run_command turns into sys.exit(1) (lines 49-51).
Launch(cmd, extra) ==
    /\ pc = cmd
    /\ cmd \notin running
    /\ invoked' = Append(invoked, [cmd |-> cmd, extra |-> extra])
    /\ \/ /\ running' = running \cup {cmd}
          /\ UNCHANGED <<pc, not_found, log, exit_status>>
       \/ /\ not_found' = not_found \cup {cmd}
          /\ log' = log \cup {"command_not_found"}
          /\ Exit(1)
          /\ running' = running
    /\ UNCHANGED <<args, fs, fs0, images_dir, masks_dir, dense_masks_dir,
                   colmap_mask_args, exited, produced, checked, copied,
                   looked_up>>

\* run_command, second half (lines 45-48): subprocess.run blocks until the
\* command exits; a non-zero return code ends the process with that code,
\* otherwise main() goes on at `next`.
Complete(cmd, next) ==
    /\ pc = cmd
    /\ cmd \in running
    /\ running' = running \ {cmd}
    /\ \E returncode \in ReturnCodes, out \in SUBSET Outputs(cmd) :
        /\ fs' = fs \cup WithParents(out)
        /\ produced' = produced \cup {<<cmd, p>> : p \in WithParents(out) \ fs}
        /\ exited' = exited \cup {<<cmd, returncode>>}
        /\ IF CalledProcessError(returncode)
           THEN /\ log' = log \cup {"command_failed"}
                /\ Exit(FailureExitCode(returncode))
           ELSE /\ pc' = next
                /\ UNCHANGED <<log, exit_status>>
    /\ UNCHANGED <<args, fs0, images_dir, masks_dir, dense_masks_dir,
                   colmap_mask_args, invoked, not_found, checked, copied,
                   looked_up>>

\* 1) Feature extraction (lines 145-157).
FeatureExtractorStart == Launch("feature_extractor", colmap_mask_args)
FeatureExtractorExit == Complete("feature_extractor", "exhaustive_matcher")

\* 2) Matching (lines 162-168).
ExhaustiveMatcherStart == Launch("exhaustive_matcher", <<>>)
ExhaustiveMatcherExit == Complete("exhaustive_matcher", "mapper")

\* 3) Sparse reconstruction (lines 173-184).
MapperStart == Launch("mapper", <<>>)
MapperExit == Complete("mapper", "check_sparse")

\* The test of line 187.
SparseModelAssumed(f) == TRUE
SparseModelFound(f) == SparseModel \in f

\* Check mapping result (lines 186-189).
CheckSparse ==
    /\ pc = "check_sparse"
    /\ checked' = checked \cup {<<SparseModel, SparseModel \in fs>>}
    /\ IF ~SparseModelFound(fs)
       THEN /\ log' = log \cup {"sparse_model_not_found"}
            /\ Exit(1)
       ELSE /\ pc' = "image_undistorter"
            /\ UNCHANGED <<log, exit_status>>
    /\ UNCHANGED <<args, fs, fs0, images_dir, masks_dir, dense_masks_dir,
                   colmap_mask_args, invoked, running, exited, not_found,
                   produced, copied, looked_up>>

\* 4) Undistort (lines 194-203).
ImageUndistorterStart == Launch("image_undistorter", <<>>)
ImageUndistorterExit == Complete("image_undistorter", "check_dense")

\* The test of line 211.
BothDatasetDirsMissing(f) == BrushImagesPath \notin f /\ BrushSparsePath \notin f
DatasetDirMissing(f) == BrushImagesPath \notin f \/ BrushSparsePath \notin f

\* Check the undistorted dataset (lines 205-215).
CheckDense ==
    /\ pc = "check_dense"
    /\ checked' = checked \cup {<<BrushImagesPath, BrushImagesPath \in fs>>,
                                <<BrushSparsePath, BrushSparsePath \in fs>>}
    /\ IF DatasetDirMissing(fs)
       THEN /\ log' = log \cup {"dataset_not_found"}
            /\ Exit(1)
       ELSE /\ pc' = "dense_masks"
            /\ UNCHANGED <<log, exit_status>>
    /\ UNCHANGED <<args, fs, fs0, images_dir, masks_dir, dense_masks_dir,
                   colmap_mask_args, invoked, running, exited, not_found,
                   produced, copied, looked_up>>

\* 4b) Optional: provide dense masks (lines 220-234).
ProvideDenseMasks ==
    /\ pc = "dense_masks"
    /\ \E d \in DenseMasksDirStates, case_sensitive \in BOOLEAN :
        /\ dense_masks_dir' = d
        /\ IF d.kind # "none"
           THEN IF PathExists(d)
                THEN LET dense_masks == DenseGlob(d, args.mask_ext, case_sensitive)
                     IN IF dense_masks # {}
                        THEN /\ fs' = fs \cup {BrushMasksPath}
                             /\ copied' = copied \cup dense_masks
                             /\ log' = log \cup {"brush_masks_ready"}
                        ELSE /\ log' = log \cup {"no_dense_mask_files"}
                             /\ UNCHANGED <<fs, copied>>
                ELSE /\ log' = log \cup {"dense_masks_dir_not_found"}
                     /\ UNCHANGED <<fs, copied>>
           ELSE /\ log' = log \cup {"no_dense_masks_configured"}
                /\ UNCHANGED <<fs, copied>>
    /\ pc' = "brush_setup"
    /\ UNCHANGED <<args, fs0, images_dir, masks_dir, colmap_mask_args,
                   invoked, running, exited, not_found, produced, checked,
                   looked_up, exit_status>>

\* The test of line 239.
BrushAlways(run_brush) == TRUE
BrushEnabled(run_brush) == run_brush = 1

\* 5) Brush, before the command is built (lines 239-248): the binary is
\* looked up, then brush_exports is created.
BrushSetup ==
    /\ pc = "brush_setup"
    /\ IF BrushEnabled(args.run_brush)
       THEN /\ looked_up' = TRUE
            /\ \E found \in BOOLEAN :
                IF ~found
                THEN /\ log' = log \cup {"brush_bin_not_found"}
                     /\ Exit(1)
                     /\ fs' = fs
                ELSE /\ fs' = fs \cup {BrushExportDir}
                     /\ pc' = "brush"
                     /\ UNCHANGED <<log, exit_status>>
       ELSE /\ pc' = "done"
            /\ UNCHANGED <<fs, looked_up, log, exit_status>>
    /\ UNCHANGED <<args, fs0, images_dir, masks_dir, dense_masks_dir,
                   colmap_mask_args, invoked, running, exited, not_found,
                   produced, checked, copied>>

\* 5) Brush training + export (lines 250-271).
BrushStart == Launch("brush", <<>>)
BrushExit == Complete("brush", "done")

\* Line 273: DONE is logged, main() returns and the interpreter exits 0.
Done ==
    /\ pc = "done"
    /\ log' = log \cup {"DONE"}
    /\ Exit(0)
    /\ UNCHANGED <<args, fs, fs0, images_dir, masks_dir, dense_masks_dir,
                   colmap_mask_args, invoked, running, exited, not_found,
                   produced, checked, copied, looked_up>>

Next ==
    \/ CheckAndSetup
    \/ MaskDetection
    \/ FeatureExtractorStart
    \/ FeatureExtractorExit
    \/ ExhaustiveMatcherStart
    \/ ExhaustiveMatcherExit
    \/ MapperStart
    \/ MapperExit
    \/ CheckSparse
    \/ ImageUndistorterStart
    \/ ImageUndistorterExit
    \/ CheckDense
    \/ ProvideDenseMasks
    \/ BrushSetup
    \/ BrushStart
    \/ BrushExit
    \/ Done

Spec == Init /\ [][Next]_vars

(***************************************************************************)
(* Properties.                                                             *)
(***************************************************************************)

\* Position of a command in Order, and what has happened to it.
Invoked(cmd) == \E i \in 1..Len(invoked) : invoked[i].cmd = cmd
Succeeded(cmd) == <<cmd, 0>> \in exited
Failed == not_found # {} \/ \E r \in exited : r[2] # 0
Passed(p) == <<p, TRUE>> \in checked

\* C1: once a command run through run_command exits non-zero or its
\* executable is not found, the process is gone at once, and from then on no
\* command is invoked (neither the failed one again nor a later one), no
\* mask is copied and nothing is created on the filesystem.
C1_AbortOnFailure ==
    /\ [](Failed => pc = "exited")
    /\ [][Failed => UNCHANGED <<invoked, running, copied, fs>>]_vars

C1_Witness ==
    /\ pc = "exited"
    /\ \E r \in exited : r[1] = "mapper" /\ r[2] # 0
    /\ Len(invoked) = 3

\* C2: when a command returns an exit code c > 0 the pipeline ends with exit
\* status c, whatever the stage; when DONE is logged it ends with status 0.
C2_ExitStatusInherited ==
    /\ \A r \in exited : r[2] > 0 => exit_status = {r[2]}
    /\ "DONE" \in log => exit_status = {0}

C2_Witness ==
    /\ <<"image_undistorter", 255>> \in exited
    /\ exit_status = {255}

\* What each command is expected to leave behind for the next one.
ExpectedOutput(cmd) ==
    IF cmd = "exhaustive_matcher" THEN {DbPath} ELSE Outputs(cmd)

\* C3 as stated: every invocation but the first starts only after an
\* existence check of the previous command's expected output has passed.
C3_CheckAfterEveryCall ==
    \A i \in 2..Len(invoked) :
        \A p \in ExpectedOutput(invoked[i - 1].cmd) : Passed(p)

\* C3 as amended: every invocation but the first starts only after the
\* previous command returned 0; an existence check guards image_undistorter
\* (sparse/0, after mapper) and Brush (dense/0/images and dense/0/sparse,
\* after image_undistorter), and these two start only if it passed.
C3_GatedOnExitAndTwoChecks ==
    \A i \in 2..Len(invoked) :
        /\ Succeeded(invoked[i - 1].cmd)
        /\ invoked[i].cmd = "image_undistorter" => Passed(SparseModel)
        /\ invoked[i].cmd = "brush" =>
              Passed(BrushImagesPath) /\ Passed(BrushSparsePath)

C3_Witness ==
    /\ Len(invoked) = 5
    /\ DbPath \notin fs
    /\ checked = {<<SparseModel, TRUE>>, <<BrushImagesPath, TRUE>>,
                  <<BrushSparsePath, TRUE>>}

\* C4: image_undistorter is invoked only if sparse/0 existed at the check
\* after mapper, Brush only if dense/0/images and dense/0/sparse both
\* existed at the check after image_undistorter; a failed check ends the run
\* with status 1 and the stage it guards is never invoked.
C4_InputDirExistsBeforeStage ==
    /\ Invoked("image_undistorter") => Passed(SparseModel)
    /\ Invoked("brush") => Passed(BrushImagesPath) /\ Passed(BrushSparsePath)
    /\ \A c \in checked :
          ~c[2] => /\ pc = "exited"
                   /\ exit_status = {1}
                   /\ ~Invoked(IF c[1] = SparseModel
                               THEN "image_undistorter" ELSE "brush")

C4_Witness ==
    /\ <<BrushImagesPath, TRUE>> \in checked
    /\ <<BrushSparsePath, FALSE>> \in checked
    /\ args.run_brush = 1
    /\ pc = "exited"

\* C5 as stated: when mapper returns 0 without creating sparse/0 in this
\* run, image_undistorter is not invoked; when image_undistorter returns 0
\* without creating dense/0/images and dense/0/sparse in this run, Brush is
\* not invoked; whatever the project directory held at the start.
C5_OutputsCreatedByThisRun ==
    /\ (Succeeded("mapper") /\ <<"mapper", SparseModel>> \notin produced)
          => ~Invoked("image_undistorter")
    /\ (/\ Succeeded("image_undistorter")
        /\ \E p \in {BrushImagesPath, BrushSparsePath} :
              <<"image_undistorter", p>> \notin produced)
          => ~Invoked("brush")

\* C6: when images_dir does not exist the run ends with status 1 at once:
\* nothing is created (not project_dir, sparse/ or dense/), the filesystem
\* is as it was, and no command is invoked.
C6_MissingImagesDir ==
    images_dir.kind = "missing" =>
        /\ pc = "exited"
        /\ exit_status = {1}
        /\ fs = fs0
        /\ invoked = <<>>
        /\ masks_dir = Unread

C6_Witness ==
    /\ images_dir.kind = "missing"
    /\ fs0 = {}
    /\ pc = "exited"

\* C7 as stated: the mask arguments are on the feature_extractor command
\* line exactly when masks_dir is an existing directory holding a regular
\* file whose extension equals the mask extension.
C7_MaskArgsIffSameExtension ==
    Len(invoked) >= 1 =>
        (invoked[1].extra = MaskArgs <=>
            /\ masks_dir.kind = "dir"
            /\ \E e \in masks_dir.entries : e.file /\ e.ext = args.mask_ext)

\* C7 as amended: the mask arguments are on the feature_extractor command
\* line exactly when masks_dir is an existing directory holding a regular
\* file whose extension equals the mask extension up to letter case,
\* however many images there are; no other command line carries them; and
\* mask detection leaves the filesystem as the setup step left it.
C7_MaskArgsIffSameExtensionIgnoringCase ==
    /\ Len(invoked) >= 1 =>
        (invoked[1].extra = MaskArgs <=>
            /\ masks_dir.kind = "dir"
            /\ \E e \in masks_dir.entries :
                  e.file /\ Lower(e.ext) = Lower(args.mask_ext))
    /\ \A i \in 2..Len(invoked) : invoked[i].extra = <<>>
    /\ (pc = "feature_extractor" /\ invoked = <<>>) =>
          fs = fs0 \cup {ProjectDir, SparseDir, DenseDir}

C7_Witness ==
    /\ Len(invoked) >= 2
    /\ invoked[1].extra = MaskArgs
    /\ \A e \in masks_dir.entries : e.ext # args.mask_ext
    /\ count_images(images_dir) > 1

\* C8: masks are copied into dense/0/masks only after image_undistorter
\* returned 0 and the check of dense/0/images and dense/0/sparse passed, and
\* the copy is over before Brush is invoked: when Brush has been invoked,
\* every file of the dense masks directory with the mask extension is in
\* dense/0/masks under its own name.
C8_DenseMasksCopiedBeforeBrush ==
    /\ dense_masks_dir # Unread =>
          /\ Succeeded("image_undistorter")
          /\ Passed(BrushImagesPath) /\ Passed(BrushSparsePath)
    /\ copied # {} => BrushMasksPath \in fs
    /\ copied \subseteq dense_masks_dir.entries
    /\ Invoked("brush") =>
          /\ dense_masks_dir # Unread
          /\ \A e \in dense_masks_dir.entries :
                (e.file /\ e.ext = args.mask_ext) => e \in copied

C8_Witness ==
    /\ Invoked("brush")
    /\ Cardinality(copied) >= 2
    /\ \A e \in copied : e.ext = args.mask_ext

\* C9: the commands invoked are a prefix of the fixed order, so each is
\* invoked at most once; at most one runs at a time; and each but the first
\* is started only after the one before it returned 0.
C9_PrefixOfFixedOrder ==
    /\ Len(invoked) <= Len(Order)
    /\ \A i \in 1..Len(invoked) : invoked[i].cmd = Order[i]
    /\ Cardinality(running) <= 1
    /\ \A c \in running : Len(invoked) >= 1 /\ invoked[Len(invoked)].cmd = c
    /\ \A i \in 2..Len(invoked) : Succeeded(invoked[i - 1].cmd)

C9_Witness ==
    /\ Len(invoked) = Len(Order)
    /\ running = {"brush"}

====
